---- MODULE Spec2Model ----
(***************************************************************************)
(* ESP32-S3 WiFi STA -> USB ECM dongle (src/main/main.c).                  *)
(*                                                                         *)
(* Two state machines are modelled:                                        *)
(*   - the readiness wait and the address reconciliation paths             *)
(*     (usb_dhcps_start_task, ensure_usb_has_ip, set_usb_ip_from_wifi),    *)
(*     specification Spec;                                                 *)
(*   - the frame relay between TinyUSB and lwIP (tud_network_recv_cb,      *)
(*     netif_input_cb, usb_driver_transmit, tud_network_xmit_cb),          *)
(*     specification RelaySpec.                                            *)
(* The esp-netif service calls (esp_netif_dhcps_stop, esp_netif_set_ip_info*)
(* esp_netif_dhcps_start), the allocators and the tcpip mailbox are the    *)
(* environment: each call returns any of its results.                      *)
(***************************************************************************)
EXTENDS Integers, Sequences, FiniteSets, TLC

(***************************************************************************)
(* Program constants.                                                      *)
(***************************************************************************)
step_ms == 100
TaskTimeoutMs == 5000
InitTimeoutMs == 2000
TaskStopTries == 8
TaskSetTries == 8
TaskStartTries == 8
EnsureStopTries == 6
HostSuffix == 253
IpStrSize == 16

(***************************************************************************)
(* esp_err_t values the code tells apart.                                  *)
(***************************************************************************)
ESP_OK == "ESP_OK"
ESP_FAIL == "ESP_FAIL"
ALREADY_STOPPED == "ESP_ERR_ESP_NETIF_DHCP_ALREADY_STOPPED"
NOT_STOPPED == "ESP_ERR_ESP_NETIF_DHCP_NOT_STOPPED"
ESP_ERR_INVALID_ARG == "ESP_ERR_INVALID_ARG"

\* What a call into the network configuration service may return.
Responses == {ESP_OK, ALREADY_STOPPED, NOT_STOPPED, ESP_FAIL}

(***************************************************************************)
(* A uint32_t is its four bytes, least significant first.  An IPv4 address *)
(* is a uint32_t holding the address in network order, which on the        *)
(* little-endian ESP32-S3 puts the first octet in the least significant    *)
(* byte.                                                                   *)
(***************************************************************************)
Zero32 == <<0, 0, 0, 0>>

\* IP4_ADDR(&x, a, b, c, d)
IP4_ADDR(a, b, c, d) == <<a, b, c, d>>

\* byte swap
ntohl(x) == <<x[4], x[3], x[2], x[1]>>

\* (w >> s) & 0xFF, for s in {0, 8, 16, 24}
ShiftMask(w, s) == w[(s \div 8) + 1]

RECURSIVE BitAnd(_, _)
BitAnd(x, y) ==
    IF x = 0 \/ y = 0 THEN 0
    ELSE (IF x % 2 = 1 /\ y % 2 = 1 THEN 1 ELSE 0) + 2 * BitAnd(x \div 2, y \div 2)

\* x & y on uint32_t
BitAnd32(x, y) == [k \in 1..4 |-> BitAnd(x[k], y[k])]

Digits == <<"0", "1", "2", "3", "4", "5", "6", "7", "8", "9">>

RECURSIVE DecStr(_)
\* printf's %u of a value
DecStr(n) == IF n < 10 THEN <<Digits[n + 1]>> ELSE DecStr(n \div 10) \o <<Digits[(n % 10) + 1]>>

\* snprintf(buf, size, "%u.%u.%u.%u", a, b, c, d): at most size-1 characters are kept
snprintf_ip(size, a, b, c, d) ==
    LET full == DecStr(a) \o <<".">> \o DecStr(b) \o <<".">> \o DecStr(c) \o <<".">> \o DecStr(d)
    IN  SubSeq(full, 1, IF Len(full) < size - 1 THEN Len(full) ELSE size - 1)

DigitVal(ch) == CHOOSE v \in 0..9 : Digits[v + 1] = ch

RECURSIVE AtonParts(_, _, _)
\* the dotted fields of s, read left to right: cur is the field being read
AtonParts(s, cur, acc) ==
    IF s = <<>> THEN Append(acc, cur)
    ELSE IF Head(s) = "." THEN AtonParts(Tail(s), 0, Append(acc, cur))
    ELSE AtonParts(Tail(s), 10 * cur + DigitVal(Head(s)), acc)

IPADDR_NONE == IP4_ADDR(255, 255, 255, 255)

\* esp_ip4addr_aton: dotted decimal text to an address
esp_ip4addr_aton(s) ==
    LET parts == AtonParts(s, 0, <<>>)
    IN  IF Len(parts) = 4 /\ \A k \in 1..4 : parts[k] <= 255
        THEN IP4_ADDR(parts[1], parts[2], parts[3], parts[4])
        ELSE IPADDR_NONE

Str_192_168_42_1 == <<"1", "9", "2", ".", "1", "6", "8", ".", "4", "2", ".", "1">>
Str_255_255_255_0 == <<"2", "5", "5", ".", "2", "5", "5", ".", "2", "5", "5", ".", "0">>

IpInfo(ip, nm, gw) == [ip |-> ip, netmask |-> nm, gw |-> gw]

\* the address triple of an interface that was never configured
Unset == IpInfo(Zero32, Zero32, Zero32)

\* ipinfo of usb_dhcps_start_task and of ensure_usb_has_ip's call in tinyusb_init
DefaultIpInfo ==
    IpInfo(esp_ip4addr_aton(Str_192_168_42_1), esp_ip4addr_aton(Str_255_255_255_0),
           esp_ip4addr_aton(Str_192_168_42_1))

\* the lwIP fallback of usb_dhcps_start_task and ensure_usb_has_ip
FallbackDefault ==
    IpInfo(IP4_ADDR(192, 168, 42, 1), IP4_ADDR(255, 255, 255, 0), IP4_ADDR(192, 168, 42, 1))

NetworkOf(info) == BitAnd32(info.ip, info.netmask)

Mask24 == IP4_ADDR(255, 255, 255, 0)

(***************************************************************************)
(* State.                                                                  *)
(***************************************************************************)
VARIABLES
    usb_netif,      \* the esp-netif handle of the USB interface is non-NULL
    tusb_installed, \* tinyusb_driver_install succeeded: TinyUSB callbacks may run
    lwip,           \* esp_netif_get_netif_impl(usb_netif): attached, and its callbacks
    usb_ip,         \* the address triple on the USB interface
    dhcps_running,  \* the DHCP server on the USB interface is started
    set_script,     \* responses the service will give to the next esp_netif_set_ip_info calls
    boot,           \* app_main in tinyusb_init_and_create_usb_netif / ensure_usb_has_ip
    task,           \* usb_dhcps_start_task
    wifi,           \* got_ip_handler in set_usb_ip_from_wifi
    hist,           \* per path: what its current or last run did (observation only)
    post_mode,      \* which branch of tud_network_recv_cb's #if chain the build compiled
    tud_ready,      \* tud_ready(): the USB device is mounted and not suspended
    next_frame,     \* number of the next frame the host sends
    next_out,       \* number of the next buffer lwIP passes to usb_driver_transmit
    pbufs,          \* per inbound frame: its pbuf (allocated, pbuf_free calls, owner)
    recv_args,      \* per inbound frame: its recv_arg_t (allocated, free calls, owner)
    mbox,           \* the tcpip thread's mailbox: posted recv_arg_t, oldest first
    outbufs,        \* per outbound buffer: its segments, pbuf_free calls, holder
    delivered,      \* frames given to netif->input, in call order (observation only)
    accepted,       \* frames for which tud_network_recv_cb returned true (observation only)
    last_recv,      \* what the last tud_network_recv_cb call did (observation only)
    last_xmit       \* what the last usb_driver_transmit / tud_network_xmit_cb did

ifaceVars == <<usb_netif, lwip, usb_ip, dhcps_running>>
reconVars ==
    <<usb_netif, tusb_installed, lwip, usb_ip, dhcps_running, set_script, boot, task, wifi,
      hist>>
relayVars ==
    <<post_mode, tud_ready, next_frame, next_out, pbufs, recv_args, mbox, outbufs,
      delivered, accepted, last_recv, last_xmit>>

Paths == {"boot", "task", "wifi"}

\* lw->output && lw->linkoutput, for a non-NULL lw
CallbacksReady == lwip.output /\ lwip.linkoutput

NoHist ==
    [phase |-> "none", stopCalled |-> FALSE, sets |-> 0, confs |-> 0, startCalled |-> FALSE,
     fbs |-> 0, setOk |-> FALSE, waitRet |-> "none", slept |-> FALSE,
     readyAtEntry |-> FALSE, cbAtCheck |-> FALSE, lwAtCheck |-> FALSE, req |-> {},
     script |-> <<>>, station |-> Zero32, stationMask |-> Zero32]

FreshHist == [NoHist EXCEPT !.phase = "running"]

\* path p starts a run: its record is fresh, the records of finished runs are dropped
StartHist(p, h0) ==
    [q \in Paths |-> IF q = p THEN h0
                     ELSE IF hist[q].phase = "returned" THEN NoHist ELSE hist[q]]

BootInit == [pc |-> "new", waited |-> 0, lw |-> FALSE, i |-> 0, rc |-> ESP_FAIL]

TaskInit ==
    [pc |-> "idle", waited |-> 0, lw |-> FALSE, i |-> 0, j |-> 0, a |-> 0,
     rc |-> ESP_FAIL, set_ok |-> FALSE]

WifiInit ==
    [pc |-> "idle", a |-> 0, b |-> 0, c |-> 0, usb_ip_s |-> <<>>, netmask |-> Zero32,
     lw |-> FALSE, rc |-> ESP_FAIL]

ReconInit ==
    /\ usb_netif = FALSE
    /\ tusb_installed = FALSE
    /\ lwip = [attached |-> FALSE, output |-> FALSE, linkoutput |-> FALSE]
    /\ usb_ip = Unset
    /\ dhcps_running = FALSE
    /\ set_script = <<>>
    /\ boot = BootInit
    /\ task = TaskInit
    /\ wifi = WifiInit
    /\ hist = [p \in Paths |-> NoHist]

(***************************************************************************)
(* The network configuration service (esp-netif).  Each call returns any   *)
(* response; a response of ESP_OK has the call's effect.                   *)
(***************************************************************************)
\* The responses to the coming esp_netif_set_ip_info calls may be fixed when a run
\* starts: not at all, or conflict, conflict, ok.
ScenarioA == <<NOT_STOPPED, NOT_STOPPED, ESP_OK>>

Scripts == {<<>>, ScenarioA}

\* what the next esp_netif_set_ip_info call may return
SetResponses == IF set_script = <<>> THEN Responses ELSE {Head(set_script)}

ScriptAfterSet == IF set_script = <<>> THEN <<>> ELSE Tail(set_script)

\* esp_netif_dhcps_stop returning r
DhcpsAfterStop(r) == IF r \in {ESP_OK, ALREADY_STOPPED} THEN FALSE ELSE dhcps_running

\* esp_netif_dhcps_start returning r
DhcpsAfterStart(r) == IF r = ESP_OK THEN TRUE ELSE dhcps_running

\* esp_netif_set_ip_info(enet, &info) returning r
IpAfterSet(r, info) == IF r = ESP_OK THEN info ELSE usb_ip

\* what was observed of the readiness wait is kept until the caller's next call
HStop(h) ==
    [h EXCEPT !.stopCalled = TRUE, !.waitRet = "none", !.slept = FALSE, !.readyAtEntry = FALSE]

HSet(h, r, info) ==
    [h EXCEPT !.sets = @ + 1,
              !.confs = IF r = NOT_STOPPED THEN @ + 1 ELSE @,
              !.setOk = @ \/ r = ESP_OK,
              !.req = @ \cup {[via |-> "service", info |-> info]}]

HStart(h) == [h EXCEPT !.startCalled = TRUE]

HFallback(h, info) ==
    [h EXCEPT !.fbs = @ + 1, !.req = @ \cup {[via |-> "fallback", info |-> info]}]

(***************************************************************************)
(* The USB backend attaches: the lwIP netif appears, then its output and   *)
(* linkoutput callbacks are wired.                                         *)
(***************************************************************************)
AttachNetif ==
    /\ usb_netif /\ ~lwip.attached
    /\ lwip' = [lwip EXCEPT !.attached = TRUE]
    /\ UNCHANGED <<usb_netif, tusb_installed, usb_ip, dhcps_running, set_script, boot, task, wifi,
                   hist, relayVars>>

WireOutput ==
    /\ lwip.attached /\ ~lwip.output
    /\ lwip' = [lwip EXCEPT !.output = TRUE]
    /\ UNCHANGED <<usb_netif, tusb_installed, usb_ip, dhcps_running, set_script, boot, task, wifi,
                   hist, relayVars>>

WireLinkoutput ==
    /\ lwip.attached /\ ~lwip.linkoutput
    /\ lwip' = [lwip EXCEPT !.linkoutput = TRUE]
    /\ UNCHANGED <<usb_netif, tusb_installed, usb_ip, dhcps_running, set_script, boot, task, wifi,
                   hist, relayVars>>

(***************************************************************************)
(* wait_for_lwip_netif_ready: one pass of the while loop, or the return    *)
(* after it.  f holds the locals waited and lw; the result has             *)
(* ret = "ready" (returned from inside the loop), "timeout" (returned      *)
(* after it, lw as last observed) or "none" (slept, still waiting).        *)
(***************************************************************************)
\* variant of wait_for_lwip_netif_ready: the first pass sleeps before it looks
wait_for_lwip_netif_ready_SleepFirst(f, timeout_ms) ==
    IF f.waited < timeout_ms
    THEN IF f.waited > 0 /\ lwip.attached /\ lwip.output /\ lwip.linkoutput
         THEN [waited |-> f.waited, lw |-> TRUE, ret |-> "ready", slept |-> FALSE]
         ELSE [waited |-> f.waited + step_ms, lw |-> lwip.attached, ret |-> "none",
               slept |-> TRUE]
    ELSE [waited |-> f.waited, lw |-> f.lw, ret |-> "timeout", slept |-> FALSE]

\* variant of wait_for_lwip_netif_ready: a timeout returns NULL whatever was observed
wait_for_lwip_netif_ready_TimeoutNull(f, timeout_ms) ==
    IF f.waited < timeout_ms
    THEN IF lwip.attached /\ lwip.output /\ lwip.linkoutput
         THEN [waited |-> f.waited, lw |-> TRUE, ret |-> "ready", slept |-> FALSE]
         ELSE [waited |-> f.waited + step_ms, lw |-> lwip.attached, ret |-> "none",
               slept |-> TRUE]
    ELSE [waited |-> f.waited, lw |-> FALSE, ret |-> "timeout", slept |-> FALSE]

wait_for_lwip_netif_ready(f, timeout_ms) ==
    IF f.waited < timeout_ms
    THEN IF lwip.attached /\ lwip.output /\ lwip.linkoutput
         THEN [waited |-> f.waited, lw |-> TRUE, ret |-> "ready", slept |-> FALSE]
         ELSE [waited |-> f.waited + step_ms, lw |-> lwip.attached, ret |-> "none",
               slept |-> TRUE]
    ELSE [waited |-> f.waited, lw |-> f.lw, ret |-> "timeout", slept |-> FALSE]

\* the history of a path after one step w of its readiness wait
HWait(h, f, w) ==
    [h EXCEPT !.readyAtEntry = IF f.waited = 0 /\ w.ret # "timeout"
                               THEN lwip.attached /\ CallbacksReady ELSE @,
              !.slept = @ \/ w.slept,
              !.waitRet = IF w.ret = "none" THEN @
                          ELSE IF w.ret = "ready" THEN "ready"
                          ELSE IF w.lw THEN "timeout_lw" ELSE "null",
              !.cbAtCheck = IF w.ret = "none" THEN @ ELSE lwip.attached /\ CallbacksReady,
              !.lwAtCheck = IF w.ret = "none" THEN @ ELSE w.lw]

(***************************************************************************)
(* usb_dhcps_start_task, spawned by tud_network_init_cb.                   *)
(***************************************************************************)
OthersUnchangedByTask ==
    UNCHANGED <<usb_netif, tusb_installed, lwip, set_script, boot, wifi, relayVars>>

\* tud_network_init_cb: xTaskCreate succeeds (created) or fails
tud_network_init_cb ==
    /\ tusb_installed
    /\ task.pc \in {"idle", "done"}
    /\ \E created \in BOOLEAN, script \in Scripts :
         IF usb_netif /\ created
         THEN /\ task' = [TaskInit EXCEPT !.pc = "wait"]
              /\ set_script' = script
              /\ hist' = StartHist("task", [FreshHist EXCEPT !.script = script])
         ELSE UNCHANGED <<task, hist, set_script>>
    /\ UNCHANGED <<usb_netif, tusb_installed, lwip, usb_ip, dhcps_running, boot, wifi, relayVars>>

\* struct netif *lw = wait_for_lwip_netif_ready(enet, 5000);
TaskWait ==
    /\ task.pc = "wait"
    /\ LET w == wait_for_lwip_netif_ready(task, TaskTimeoutMs)
       IN  /\ task' = IF w.ret = "none"
                      THEN [task EXCEPT !.waited = w.waited, !.lw = w.lw]
                      ELSE [task EXCEPT !.waited = 0, !.lw = w.lw, !.pc = "stop", !.i = 0]
           /\ hist' = [hist EXCEPT !["task"] = HWait(@, task, w)]
    /\ UNCHANGED <<usb_ip, dhcps_running>>
    /\ OthersUnchangedByTask

\* variant of StopSucceeded: only ESP_OK leaves the loop early
StopSucceeded_OkOnly(rc) == rc = ESP_OK

\* the test that leaves a dhcps_stop loop early
StopSucceeded(rc) == rc = ESP_OK \/ rc = ALREADY_STOPPED

\* one pass of: for (i = 0; i < 8; ++i) { rc = esp_netif_dhcps_stop(enet); ... }
TaskStopPass(t, rc) ==
    IF StopSucceeded(rc) \/ t.i + 1 >= TaskStopTries
    THEN [t EXCEPT !.rc = rc, !.i = 0, !.pc = "set", !.j = 0, !.set_ok = FALSE]
    ELSE [t EXCEPT !.rc = rc, !.i = @ + 1]

TaskStop ==
    /\ task.pc = "stop"
    /\ \E rc \in Responses :
         /\ task' = TaskStopPass(task, rc)
         /\ dhcps_running' = DhcpsAfterStop(rc)
         /\ hist' = [hist EXCEPT !["task"] = HStop(@)]
    /\ UNCHANGED usb_ip
    /\ OthersUnchangedByTask

\* variant of TaskSetAdvance: the pass is repeated without ++j
TaskSetAdvance_NoIncrement(t) ==
    IF t.j + 1 < TaskSetTries
    THEN [t EXCEPT !.pc = "set"]
    ELSE [t EXCEPT !.j = 0, !.pc = "fallback"]

\* the for statement's ++j and j < 8 after a pass of the set loop that did not break
TaskSetAdvance(t) ==
    IF t.j + 1 < TaskSetTries
    THEN [t EXCEPT !.j = @ + 1, !.pc = "set"]
    ELSE [t EXCEPT !.j = 0, !.pc = "fallback"]

\* variant of TaskSetPass: a conflict leaves the set loop for the fallback, as the
\* single attempt of the other two paths does
TaskSetPass_ConflictToFallback(t, rc) ==
    IF rc = ESP_OK
    THEN [t EXCEPT !.rc = rc, !.set_ok = TRUE, !.j = 0, !.pc = "start", !.a = 0]
    ELSE IF rc = NOT_STOPPED
    THEN [t EXCEPT !.rc = rc, !.j = 0, !.pc = "fallback"]
    ELSE TaskSetAdvance([t EXCEPT !.rc = rc])

\* variant of TaskSetPass: the ESP_OK branch breaks without set_ok = true
TaskSetPass_ForgetsSetOk(t, rc) ==
    IF rc = ESP_OK
    THEN [t EXCEPT !.rc = rc, !.j = 0, !.pc = "fallback"]
    ELSE IF rc = NOT_STOPPED
    THEN [t EXCEPT !.rc = rc, !.pc = "set_recover"]
    ELSE TaskSetAdvance([t EXCEPT !.rc = rc])

\* rc = esp_netif_set_ip_info(enet, &ipinfo) in the set loop
TaskSetPass(t, rc) ==
    IF rc = ESP_OK
    THEN [t EXCEPT !.rc = rc, !.set_ok = TRUE, !.j = 0, !.pc = "start", !.a = 0]
    ELSE IF rc = NOT_STOPPED
    THEN [t EXCEPT !.rc = rc, !.pc = "set_recover"]
    ELSE TaskSetAdvance([t EXCEPT !.rc = rc])

TaskSet ==
    /\ task.pc = "set"
    /\ \E rc \in SetResponses :
         /\ task' = TaskSetPass(task, rc)
         /\ usb_ip' = IpAfterSet(rc, DefaultIpInfo)
         /\ hist' = [hist EXCEPT !["task"] = HSet(@, rc, DefaultIpInfo)]
    /\ set_script' = ScriptAfterSet
    /\ UNCHANGED <<usb_netif, tusb_installed, lwip, dhcps_running, boot, wifi, relayVars>>

\* esp_err_t s = esp_netif_dhcps_stop(enet); ... continue;  (rc is not assigned)
TaskSetRecover ==
    /\ task.pc = "set_recover"
    /\ \E s \in Responses :
         /\ task' = TaskSetAdvance(task)
         /\ dhcps_running' = DhcpsAfterStop(s)
         /\ hist' = [hist EXCEPT !["task"] = HStop(@)]
    /\ UNCHANGED usb_ip
    /\ OthersUnchangedByTask

\* if (!set_ok) { if (lw) netif_set_addr(lw, 192.168.42.1, 255.255.255.0, 192.168.42.1); }
TaskFallback ==
    /\ task.pc = "fallback"
    /\ task' = [task EXCEPT !.pc = "start", !.a = 0]
    /\ IF ~task.set_ok /\ task.lw
       THEN /\ usb_ip' = FallbackDefault
            /\ hist' = [hist EXCEPT !["task"] = HFallback(@, FallbackDefault)]
       ELSE UNCHANGED <<usb_ip, hist>>
    /\ UNCHANGED dhcps_running
    /\ OthersUnchangedByTask

\* leaving the start loop: the final log, then vTaskDelete(NULL)
TaskExit(t) == [TaskInit EXCEPT !.pc = "done"]

\* the for statement's ++a and a < 8 after a pass of the start loop that did not break
TaskStartAdvance(t) ==
    IF t.a + 1 < TaskStartTries
    THEN [t EXCEPT !.a = @ + 1, !.pc = "start"]
    ELSE TaskExit(t)

\* rc = esp_netif_dhcps_start(enet) in the start loop
TaskStartPass(t, rc) ==
    IF rc = ESP_OK
    THEN TaskExit(t)
    ELSE IF rc = NOT_STOPPED
    THEN [t EXCEPT !.rc = rc, !.pc = "start_recover"]
    ELSE TaskStartAdvance([t EXCEPT !.rc = rc])

HReturned(h, t) == IF t.pc \in {"done", "idle", "main_loop"} THEN [h EXCEPT !.phase = "returned"] ELSE h

TaskStart ==
    /\ task.pc = "start"
    /\ \E rc \in Responses :
         /\ task' = TaskStartPass(task, rc)
         /\ dhcps_running' = DhcpsAfterStart(rc)
         /\ hist' = [hist EXCEPT !["task"] = HReturned(HStart(@), task')]
    /\ UNCHANGED usb_ip
    /\ OthersUnchangedByTask

\* variant of TaskStartRecover: the recovery branch also clears the address
TaskStartRecover_ClearsAddress ==
    /\ task.pc = "start_recover"
    /\ \E s \in Responses :
         /\ task' = TaskStartAdvance(task)
         /\ dhcps_running' = DhcpsAfterStop(s)
         /\ hist' = [hist EXCEPT !["task"] = HReturned(HStop(@), task')]
    /\ usb_ip' = Unset
    /\ OthersUnchangedByTask

\* esp_err_t s = esp_netif_dhcps_stop(enet); ... continue;  in the start loop
TaskStartRecover ==
    /\ task.pc = "start_recover"
    /\ \E s \in Responses :
         /\ task' = TaskStartAdvance(task)
         /\ dhcps_running' = DhcpsAfterStop(s)
         /\ hist' = [hist EXCEPT !["task"] = HReturned(HStop(@), task')]
    /\ UNCHANGED usb_ip
    /\ OthersUnchangedByTask

usb_dhcps_start_task ==
    \/ TaskWait
    \/ TaskStop
    \/ TaskSet
    \/ TaskSetRecover
    \/ TaskFallback
    \/ TaskStart
    \/ TaskStartRecover

(***************************************************************************)
(* app_main: tinyusb_init_and_create_usb_netif, then ensure_usb_has_ip,    *)
(* then the tud_task loop.                                                 *)
(***************************************************************************)
OthersUnchangedByBoot == UNCHANGED <<set_script, task, wifi, relayVars>>

\* usb_netif = esp_netif_new(&netif_cfg); if (!usb_netif) return;
BootNewNetif ==
    /\ boot.pc = "new"
    /\ \E ok \in BOOLEAN :
         /\ usb_netif' = ok
         /\ boot' = [boot EXCEPT !.pc = IF ok THEN "install" ELSE "main_loop"]
    /\ UNCHANGED <<tusb_installed, lwip, usb_ip, dhcps_running, hist>>
    /\ OthersUnchangedByBoot

\* rc = tinyusb_driver_install(&tusb_cfg); if (rc != ESP_OK) return;
BootInstall ==
    /\ boot.pc = "install"
    /\ \E ok \in BOOLEAN, script \in Scripts :
         /\ tusb_installed' = ok
         /\ boot' = [boot EXCEPT !.pc = IF ok THEN "wait" ELSE "main_loop"]
         /\ hist' = IF ok THEN StartHist("boot", [FreshHist EXCEPT !.script = script]) ELSE hist
         /\ set_script' = IF ok THEN script ELSE set_script
    /\ UNCHANGED <<usb_netif, lwip, usb_ip, dhcps_running, task, wifi, relayVars>>

\* struct netif *lw = wait_for_lwip_netif_ready(usb_netif, 2000);  (lw is only logged)
BootWait ==
    /\ boot.pc = "wait"
    /\ LET w == wait_for_lwip_netif_ready(boot, InitTimeoutMs)
       IN  /\ boot' = IF w.ret = "none"
                      THEN [boot EXCEPT !.waited = w.waited, !.lw = w.lw]
                      ELSE [boot EXCEPT !.waited = 0, !.lw = FALSE, !.pc = "stop", !.i = 0]
           /\ hist' = [hist EXCEPT !["boot"] = HWait(@, boot, w)]
    /\ UNCHANGED <<usb_netif, tusb_installed, lwip, usb_ip, dhcps_running>>
    /\ OthersUnchangedByBoot

\* one pass of: for (i = 0; i < 6; ++i) { rc = esp_netif_dhcps_stop(enet); ... }
EnsureStopPass(t, rc) ==
    IF StopSucceeded(rc) \/ t.i + 1 >= EnsureStopTries
    THEN [t EXCEPT !.rc = rc, !.i = 0, !.pc = "set"]
    ELSE [t EXCEPT !.rc = rc, !.i = @ + 1]

EnsureStop ==
    /\ boot.pc = "stop"
    /\ \E rc \in Responses :
         /\ boot' = EnsureStopPass(boot, rc)
         /\ dhcps_running' = DhcpsAfterStop(rc)
         /\ hist' = [hist EXCEPT !["boot"] = HStop(@)]
    /\ UNCHANGED <<usb_netif, tusb_installed, lwip, usb_ip>>
    /\ OthersUnchangedByBoot

\* variant of EnsureSetPass: ensure_usb_has_ip returns after the set call whatever it
\* returned
EnsureSetPass_NoFallback(t, rc) == [BootInit EXCEPT !.pc = "main_loop"]

\* rc = esp_netif_set_ip_info(enet, &ipinfo); if (rc == ESP_OK) return;
EnsureSetPass(t, rc) ==
    IF rc = ESP_OK
    THEN [BootInit EXCEPT !.pc = "main_loop"]
    ELSE [t EXCEPT !.rc = rc, !.pc = "fallback"]

EnsureSet ==
    /\ boot.pc = "set"
    /\ \E rc \in SetResponses :
         /\ boot' = EnsureSetPass(boot, rc)
         /\ usb_ip' = IpAfterSet(rc, DefaultIpInfo)
         /\ hist' = [hist EXCEPT !["boot"] = HReturned(HSet(@, rc, DefaultIpInfo), boot')]
    /\ set_script' = ScriptAfterSet
    /\ UNCHANGED <<usb_netif, tusb_installed, lwip, dhcps_running, task, wifi, relayVars>>

\* lw = esp_netif_get_netif_impl(enet); if (lw) netif_set_addr(lw, 192.168.42.1, ...);
EnsureFallback ==
    /\ boot.pc = "fallback"
    /\ boot' = [BootInit EXCEPT !.pc = "main_loop"]
    /\ IF lwip.attached
       THEN /\ usb_ip' = FallbackDefault
            /\ hist' = [hist EXCEPT !["boot"] = HReturned(HFallback(@, FallbackDefault), boot')]
       ELSE /\ hist' = [hist EXCEPT !["boot"] = HReturned(@, boot')]
            /\ UNCHANGED usb_ip
    /\ UNCHANGED <<usb_netif, tusb_installed, lwip, dhcps_running>>
    /\ OthersUnchangedByBoot

ensure_usb_has_ip ==
    \/ EnsureStop
    \/ EnsureSet
    \/ EnsureFallback

tinyusb_init_and_create_usb_netif ==
    \/ BootNewNetif
    \/ BootInstall
    \/ BootWait
    \/ ensure_usb_has_ip

(***************************************************************************)
(* got_ip_handler -> set_usb_ip_from_wifi(&evt->ip_info).                  *)
(***************************************************************************)
\* Station assignments delivered with IP_EVENT_STA_GOT_IP
StationAddrs ==
    {IP4_ADDR(10, 0, 5, 42), IP4_ADDR(192, 168, 42, 7), IP4_ADDR(172, 16, 254, 253)}

StationMasks == {IP4_ADDR(255, 255, 255, 0), IP4_ADDR(255, 255, 0, 0), Zero32}

\* variant of DeriveBytes: the shifts are applied to ip.addr without ntohl
DeriveBytes_NoSwap(addr) ==
    [a |-> ShiftMask(addr, 24), b |-> ShiftMask(addr, 16), c |-> ShiftMask(addr, 8)]

\* w = ntohl(ip.addr); a = (w >> 24) & 0xFF; b = (w >> 16) & 0xFF; c = (w >> 8) & 0xFF
DeriveBytes(addr) ==
    LET w == ntohl(addr)
    IN  [a |-> ShiftMask(w, 24), b |-> ShiftMask(w, 16), c |-> ShiftMask(w, 8)]

\* variant of DeriveIpString: usb_ip_s holds 12 characters
DeriveIpString_ShortBuffer(a, b, c) == snprintf_ip(12, a, b, c, HostSuffix)

\* snprintf(usb_ip_s, sizeof(usb_ip_s), "%u.%u.%u.%u", a, b, c, 253)
DeriveIpString(a, b, c) == snprintf_ip(IpStrSize, a, b, c, HostSuffix)

\* IP4_ADDR(&ip4, a, b, c, 253); IP4_ADDR(&nm, 255,255,255,0); IP4_ADDR(&gw, a, b, c, 253)
WifiFallbackInfo(a, b, c) ==
    IpInfo(IP4_ADDR(a, b, c, HostSuffix), IP4_ADDR(255, 255, 255, 0),
           IP4_ADDR(a, b, c, HostSuffix))

\* usb_ip.ip = aton(usb_ip_s); usb_ip.netmask = wifi netmask or 255.255.255.0; usb_ip.gw = ip
WifiServiceInfo(ip_s, wifi_netmask) ==
    LET ip == esp_ip4addr_aton(ip_s)
    IN  IpInfo(ip,
               IF wifi_netmask # Zero32 THEN wifi_netmask ELSE esp_ip4addr_aton(Str_255_255_255_0),
               ip)

\* if (!lw || lw->output == NULL || lw->linkoutput == NULL): the lwIP-only branch
WifiBackendNotReady == ~lwip.attached \/ ~lwip.output \/ ~lwip.linkoutput

OthersUnchangedByWifi ==
    UNCHANGED <<usb_netif, tusb_installed, lwip, set_script, boot, task, relayVars>>

\* variant of set_usb_ip_from_wifi_entry: the function does not test usb_netif
set_usb_ip_from_wifi_entry_NoHandleTest(addr, netmask, script) ==
    LET d == DeriveBytes(addr)
        h0 == [FreshHist EXCEPT !.cbAtCheck = lwip.attached /\ CallbacksReady,
                                !.lwAtCheck = lwip.attached,
                                !.station = addr, !.stationMask = netmask]
    IN  IF WifiBackendNotReady
        THEN /\ UNCHANGED <<wifi, set_script>>
             /\ IF lwip.attached
                THEN /\ usb_ip' = WifiFallbackInfo(d.a, d.b, d.c)
                     /\ hist' = StartHist("wifi",
                                    [HFallback(h0, WifiFallbackInfo(d.a, d.b, d.c))
                                        EXCEPT !.phase = "returned"])
                ELSE /\ hist' = StartHist("wifi", [h0 EXCEPT !.phase = "returned"])
                     /\ UNCHANGED usb_ip
        ELSE /\ wifi' = [pc |-> "stop", a |-> d.a, b |-> d.b, c |-> d.c,
                         usb_ip_s |-> DeriveIpString(d.a, d.b, d.c), netmask |-> netmask,
                         lw |-> TRUE, rc |-> ESP_FAIL]
             /\ hist' = StartHist("wifi", [h0 EXCEPT !.script = script])
             /\ set_script' = script
             /\ UNCHANGED usb_ip

\* set_usb_ip_from_wifi up to its first service call
set_usb_ip_from_wifi_entry(addr, netmask, script) ==
    LET d == DeriveBytes(addr)
        h0 == [FreshHist EXCEPT !.cbAtCheck = lwip.attached /\ CallbacksReady,
                                !.lwAtCheck = lwip.attached,
                                !.station = addr, !.stationMask = netmask]
    IN  IF ~usb_netif
        THEN /\ hist' = StartHist("wifi", [NoHist EXCEPT !.phase = "returned"])
             /\ UNCHANGED <<wifi, usb_ip, set_script>>
        ELSE IF WifiBackendNotReady
        THEN /\ UNCHANGED <<wifi, set_script>>
             /\ IF lwip.attached
                THEN /\ usb_ip' = WifiFallbackInfo(d.a, d.b, d.c)
                     /\ hist' = StartHist("wifi",
                                    [HFallback(h0, WifiFallbackInfo(d.a, d.b, d.c))
                                        EXCEPT !.phase = "returned"])
                ELSE /\ hist' = StartHist("wifi", [h0 EXCEPT !.phase = "returned"])
                     /\ UNCHANGED usb_ip
        ELSE /\ wifi' = [pc |-> "stop", a |-> d.a, b |-> d.b, c |-> d.c,
                         usb_ip_s |-> DeriveIpString(d.a, d.b, d.c), netmask |-> netmask,
                         lw |-> TRUE, rc |-> ESP_FAIL]
             /\ hist' = StartHist("wifi", [h0 EXCEPT !.script = script])
             /\ set_script' = script
             /\ UNCHANGED usb_ip

got_ip_handler ==
    /\ wifi.pc = "idle"
    /\ \E addr \in StationAddrs, netmask \in StationMasks, script \in Scripts :
         set_usb_ip_from_wifi_entry(addr, netmask, script)
    /\ UNCHANGED <<usb_netif, tusb_installed, lwip, dhcps_running, boot, task, relayVars>>

\* rc = esp_netif_dhcps_stop(usb_netif);  (every result continues)
WifiStop ==
    /\ wifi.pc = "stop"
    /\ \E rc \in Responses :
         /\ wifi' = [wifi EXCEPT !.rc = rc, !.pc = "set"]
         /\ dhcps_running' = DhcpsAfterStop(rc)
         /\ hist' = [hist EXCEPT !["wifi"] = HStop(@)]
    /\ UNCHANGED usb_ip
    /\ OthersUnchangedByWifi

\* rc = esp_netif_set_ip_info(usb_netif, &usb_ip);  once
WifiSetPass(t, rc) ==
    [t EXCEPT !.rc = rc, !.pc = IF rc = ESP_OK THEN "start" ELSE "fallback"]

WifiSet ==
    /\ wifi.pc = "set"
    /\ \E rc \in SetResponses :
         LET info == WifiServiceInfo(wifi.usb_ip_s, wifi.netmask)
         IN  /\ wifi' = WifiSetPass(wifi, rc)
             /\ usb_ip' = IpAfterSet(rc, info)
             /\ hist' = [hist EXCEPT !["wifi"] = HSet(@, rc, info)]
    /\ set_script' = ScriptAfterSet
    /\ UNCHANGED <<usb_netif, tusb_installed, lwip, dhcps_running, boot, task, relayVars>>

\* else { if (lw) netif_set_addr(lw, a.b.c.253, 255.255.255.0, a.b.c.253); }
WifiFallback ==
    /\ wifi.pc = "fallback"
    /\ wifi' = [wifi EXCEPT !.pc = "start"]
    /\ IF wifi.lw
       THEN /\ usb_ip' = WifiFallbackInfo(wifi.a, wifi.b, wifi.c)
            /\ hist' = [hist EXCEPT !["wifi"] =
                           HFallback(@, WifiFallbackInfo(wifi.a, wifi.b, wifi.c))]
       ELSE UNCHANGED <<usb_ip, hist>>
    /\ UNCHANGED dhcps_running
    /\ OthersUnchangedByWifi

\* rc = esp_netif_dhcps_start(usb_netif);  once, then return
WifiStart ==
    /\ wifi.pc = "start"
    /\ \E rc \in Responses :
         /\ wifi' = WifiInit
         /\ dhcps_running' = DhcpsAfterStart(rc)
         /\ hist' = [hist EXCEPT !["wifi"] = HReturned(HStart(@), wifi')]
    /\ UNCHANGED usb_ip
    /\ OthersUnchangedByWifi

set_usb_ip_from_wifi ==
    \/ got_ip_handler
    \/ WifiStop
    \/ WifiSet
    \/ WifiFallback
    \/ WifiStart

(***************************************************************************)
(* Frame relay.                                                            *)
(***************************************************************************)
MaxFrames == 3
MboxCap == 2
MaxOut == 2

Frames == 1..MaxFrames
OutIds == 1..MaxOut

\* sizes of the frames the host sends (0: an empty transfer)
FrameSizes == {0, 60, 1514}

\* segment lengths of the pbuf chains lwIP passes to usb_driver_transmit
OutChains == {<<60>>, <<0, 42>>, <<1000, 514>>}

ERR_OK == "ERR_OK"
ERR_MEM == "ERR_MEM"

PostModes == {"tcpip_callback_with_block", "tcpip_callback", "direct"}

\* A buffer: owner is who holds the reference that obliges a release:
\* "relay" (this program), "usb" (handed to tud_network_xmit), "lwip" (netif->input
\* accepted it), "nobody" (no reference is left), "none" (never allocated).
NoBuf == [alloc |-> FALSE, frees |-> 0, owner |-> "none"]

NewBuf == [alloc |-> TRUE, frees |-> 0, owner |-> "relay"]

\* pbuf_free(p) / free(ra) by the relay
Release(b) == [b EXCEPT !.frees = @ + 1, !.owner = IF @ = "lwip" THEN "lwip" ELSE "nobody"]

\* netif->input returned ERR_OK: lwIP took ownership
TakenByLwip(b) == [b EXCEPT !.owner = "lwip"]

\* the relay forgets its pointer without releasing
Dropped(b) == [b EXCEPT !.owner = IF @ = "relay" THEN "nobody" ELSE @]

RelayInit ==
    /\ post_mode \in PostModes
    /\ tud_ready = FALSE
    /\ next_frame = 1
    /\ next_out = 1
    /\ pbufs = [f \in Frames |-> NoBuf]
    /\ recv_args = [f \in Frames |-> NoBuf]
    /\ mbox = <<>>
    /\ outbufs = [b \in OutIds |-> [buf |-> NoBuf, segs |-> <<>>]]
    /\ delivered = <<>>
    /\ accepted = <<>>
    /\ last_recv = [frame |-> 0, ret |-> FALSE, allocs |-> 0, posted |-> FALSE,
                    input |-> FALSE, lw |-> FALSE, cb |-> FALSE]
    /\ last_xmit = [buf |-> 0, ret |-> "none", total |-> 0]

\* variant of Post: the callback is put at the front of the mailbox
PostToFront(q, msg) == <<msg>> \o q

\* tcpip_callback_with_block(netif_input_cb, ra, 0) / tcpip_callback(netif_input_cb, ra)
Post(q, msg) == Append(q, msg)

\* variant of netif_input_cb: pbuf_free(p) after netif->input whatever it returned
netif_input_cb_AlwaysFree(msg, p, ra, res) ==
    IF msg.n /\ msg.p
    THEN [p |-> Release(IF res # ERR_OK THEN p ELSE TakenByLwip(p)),
          ra |-> Release(ra), input |-> TRUE]
    ELSE [p |-> IF msg.p THEN Release(p) ELSE p, ra |-> Release(ra), input |-> FALSE]

\* netif_input_cb(ra) on the tcpip thread, netif->input returning res:
\* the pbuf and the recv_arg_t afterwards, and whether input was called
netif_input_cb(msg, p, ra, res) ==
    IF msg.n /\ msg.p
    THEN [p |-> IF res # ERR_OK THEN Release(p) ELSE TakenByLwip(p),
          ra |-> Release(ra), input |-> TRUE]
    ELSE [p |-> IF msg.p THEN Release(p) ELSE p, ra |-> Release(ra), input |-> FALSE]

RecvRejected == [ret |-> FALSE, p |-> NoBuf, ra |-> NoBuf, posted |-> FALSE, input |-> FALSE]

\* variant of tud_network_recv_cb: a failed post frees the pbuf but not the
\* recv_arg_t
tud_network_recv_cb_LeaksArg(size, alloc_ok, malloc_ok, post_ok, input_res) ==
    IF size = 0 THEN RecvRejected
    ELSE IF ~usb_netif THEN RecvRejected
    ELSE IF ~lwip.attached THEN RecvRejected
    ELSE IF ~alloc_ok THEN RecvRejected
    ELSE IF ~malloc_ok
    THEN [ret |-> FALSE, p |-> Release(NewBuf), ra |-> NoBuf, posted |-> FALSE,
          input |-> FALSE]
    ELSE IF post_mode \in {"tcpip_callback_with_block", "tcpip_callback"}
    THEN IF ~post_ok
         THEN [ret |-> FALSE, p |-> Release(NewBuf), ra |-> Dropped(NewBuf),
               posted |-> FALSE, input |-> FALSE]
         ELSE [ret |-> TRUE, p |-> NewBuf, ra |-> NewBuf, posted |-> TRUE, input |-> FALSE]
    ELSE IF input_res # ERR_OK
         THEN [ret |-> FALSE, p |-> Release(NewBuf), ra |-> Release(NewBuf),
               posted |-> FALSE, input |-> TRUE]
         ELSE [ret |-> TRUE, p |-> TakenByLwip(NewBuf), ra |-> Release(NewBuf),
               posted |-> FALSE, input |-> TRUE]

\* tud_network_recv_cb(src, size): pbuf_alloc, malloc and the post (or, in the direct
\* build, netif->input) succeed as alloc_ok, malloc_ok, post_ok, input_res say
tud_network_recv_cb(size, alloc_ok, malloc_ok, post_ok, input_res) ==
    IF size = 0 THEN RecvRejected
    ELSE IF ~usb_netif THEN RecvRejected
    ELSE IF ~lwip.attached THEN RecvRejected
    ELSE IF ~alloc_ok THEN RecvRejected
    ELSE IF ~malloc_ok
    THEN [ret |-> FALSE, p |-> Release(NewBuf), ra |-> NoBuf, posted |-> FALSE,
          input |-> FALSE]
    ELSE IF post_mode \in {"tcpip_callback_with_block", "tcpip_callback"}
    THEN IF ~post_ok
         THEN [ret |-> FALSE, p |-> Release(NewBuf), ra |-> Release(NewBuf),
               posted |-> FALSE, input |-> FALSE]
         ELSE [ret |-> TRUE, p |-> NewBuf, ra |-> NewBuf, posted |-> TRUE, input |-> FALSE]
    ELSE IF input_res # ERR_OK
         THEN [ret |-> FALSE, p |-> Release(NewBuf), ra |-> Release(NewBuf),
               posted |-> FALSE, input |-> TRUE]
         ELSE [ret |-> TRUE, p |-> TakenByLwip(NewBuf), ra |-> Release(NewBuf),
               posted |-> FALSE, input |-> TRUE]

OthersUnchangedByRelay == UNCHANGED reconVars

\* TinyUSB delivers the next frame from the host
TudNetworkRecvCb ==
    /\ tusb_installed
    /\ next_frame <= MaxFrames
    /\ \E size \in FrameSizes, alloc_ok \in BOOLEAN, malloc_ok \in BOOLEAN,
          post_ok \in BOOLEAN, input_res \in {ERR_OK, ERR_MEM} :
         /\ post_ok => Len(mbox) < MboxCap
         /\ LET f == next_frame
                r == tud_network_recv_cb(size, alloc_ok, malloc_ok, post_ok, input_res)
            IN  /\ pbufs' = [pbufs EXCEPT ![f] = r.p]
                /\ recv_args' = [recv_args EXCEPT ![f] = r.ra]
                /\ mbox' = IF r.posted
                           THEN Post(mbox, [frame |-> f, p |-> TRUE, n |-> lwip.attached])
                           ELSE mbox
                /\ delivered' = IF r.input THEN Append(delivered, f) ELSE delivered
                /\ accepted' = IF r.ret THEN Append(accepted, f) ELSE accepted
                /\ last_recv' = [frame |-> f, ret |-> r.ret,
                                 allocs |-> IF r.p.alloc THEN 1 ELSE 0,
                                 posted |-> r.posted, input |-> r.input,
                                 lw |-> usb_netif /\ lwip.attached,
                                 cb |-> usb_netif /\ lwip.attached /\ CallbacksReady]
    /\ next_frame' = next_frame + 1
    /\ UNCHANGED <<post_mode, tud_ready, next_out, outbufs, last_xmit>>
    /\ OthersUnchangedByRelay

\* the tcpip thread runs the oldest posted callback
NetifInputCb ==
    /\ mbox # <<>>
    /\ \E res \in {ERR_OK, ERR_MEM} :
         LET msg == Head(mbox)
             r == netif_input_cb(msg, pbufs[msg.frame], recv_args[msg.frame], res)
         IN  /\ pbufs' = [pbufs EXCEPT ![msg.frame] = r.p]
             /\ recv_args' = [recv_args EXCEPT ![msg.frame] = r.ra]
             /\ delivered' = IF r.input THEN Append(delivered, msg.frame) ELSE delivered
    /\ mbox' = Tail(mbox)
    /\ UNCHANGED <<post_mode, tud_ready, next_frame, next_out, outbufs, accepted,
                   last_recv, last_xmit>>
    /\ OthersUnchangedByRelay

RECURSIVE ChainTotal(_, _)
\* for (q = p; q; q = q->next) if (q->len) { memcpy(...); total += q->len; }  (uint16_t)
ChainTotal(segs, total) ==
    IF segs = <<>> THEN total
    ELSE ChainTotal(Tail(segs),
                    IF Head(segs) # 0 THEN (total + Head(segs)) % 65536 ELSE total)

\* handed to tud_network_xmit: TinyUSB holds the reference until it copies the frame out
HandedToUsb(b) == [b EXCEPT !.owner = "usb"]

\* variant of usb_driver_transmit: returns ESP_FAIL without pbuf_free when not ready
usb_driver_transmit_NoFree(o, ready) ==
    IF ~o.buf.alloc THEN [ret |-> ESP_ERR_INVALID_ARG, o |-> o]
    ELSE IF ~ready THEN [ret |-> ESP_FAIL, o |-> [o EXCEPT !.buf = Dropped(@)]]
    ELSE [ret |-> ESP_OK, o |-> [o EXCEPT !.buf = HandedToUsb(@)]]

\* variant of usb_driver_transmit: the buffer goes to tud_network_xmit without
\* asking tud_ready()
usb_driver_transmit_IgnoresReady(o, ready) ==
    IF ~o.buf.alloc THEN [ret |-> ESP_ERR_INVALID_ARG, o |-> o]
    ELSE [ret |-> ESP_OK, o |-> [o EXCEPT !.buf = HandedToUsb(@)]]

\* usb_driver_transmit(handle, buffer, len) with tud_ready() returning ready;
\* o is the buffer (o.buf.alloc is FALSE for a NULL pointer)
usb_driver_transmit(o, ready) ==
    IF ~o.buf.alloc THEN [ret |-> ESP_ERR_INVALID_ARG, o |-> o]
    ELSE IF ~ready THEN [ret |-> ESP_FAIL, o |-> [o EXCEPT !.buf = Release(@)]]
    ELSE [ret |-> ESP_OK, o |-> [o EXCEPT !.buf = HandedToUsb(@)]]

\* tud_network_xmit_cb(dst, ref, arg): dst is non-NULL as have_dst says
tud_network_xmit_cb(have_dst, o) ==
    IF ~have_dst \/ ~o.buf.alloc THEN [ret |-> 0, o |-> o]
    ELSE [ret |-> ChainTotal(o.segs, 0),
          o |-> [o EXCEPT !.buf = Release([@ EXCEPT !.owner = "relay"])]]

\* usb_driver_free_rx_buffer(handle, buffer).  esp-netif calls it for buffers that
\* came in through esp_netif_receive; the program never calls esp_netif_receive, so
\* no step of the relay applies it to a buffer.
usb_driver_free_rx_buffer(o) ==
    IF ~o.buf.alloc THEN o ELSE [o EXCEPT !.buf = Release(@)]

\* lwIP sends a frame out of the USB interface
UsbDriverTransmit ==
    /\ lwip.attached /\ lwip.linkoutput
    /\ next_out <= MaxOut
    /\ \E segs \in OutChains :
         LET r == usb_driver_transmit([buf |-> NewBuf, segs |-> segs], tud_ready)
         IN  /\ outbufs' = [outbufs EXCEPT ![next_out] = r.o]
             /\ last_xmit' = [buf |-> next_out, ret |-> r.ret, total |-> 0]
    /\ next_out' = next_out + 1
    /\ UNCHANGED <<post_mode, tud_ready, next_frame, pbufs, recv_args, mbox, delivered,
                   accepted, last_recv>>
    /\ OthersUnchangedByRelay

\* extern tud_network_xmit(p, 0): TinyUSB calls tud_network_xmit_cb(dst, p, 0) once,
\* with its transmit buffer as dst
TudNetworkXmit ==
    /\ \E b \in OutIds :
         /\ outbufs[b].buf.owner = "usb"
         /\ LET r == tud_network_xmit_cb(TRUE, outbufs[b])
            IN  /\ outbufs' = [outbufs EXCEPT ![b] = r.o]
                /\ last_xmit' = [buf |-> b, ret |-> "copied", total |-> r.ret]
    /\ UNCHANGED <<post_mode, tud_ready, next_frame, next_out, pbufs, recv_args, mbox,
                   delivered, accepted, last_recv>>
    /\ OthersUnchangedByRelay

\* the host mounts or suspends the device: tud_ready() changes
TudReadyChange ==
    /\ tusb_installed
    /\ tud_ready' = ~tud_ready
    /\ UNCHANGED <<post_mode, next_frame, next_out, pbufs, recv_args, mbox, outbufs,
                   delivered, accepted, last_recv, last_xmit>>
    /\ OthersUnchangedByRelay

(***************************************************************************)
(* Specification of the reconciliation paths.  A path starts when no other *)
(* path is inside a reconciliation; the backend attaches at any time and   *)
(* every service call returns any response.                                *)
(***************************************************************************)
BootQuiet == boot.pc \in {"new", "install", "main_loop"}
TaskQuiet == task.pc \in {"idle", "done"}
WifiQuiet == wifi.pc = "idle"

vars == <<reconVars, relayVars>>

\* the relay's build branch does not matter to the reconciliation paths
Init == ReconInit /\ RelayInit /\ post_mode = "tcpip_callback_with_block"

Next ==
    \/ AttachNetif
    \/ WireOutput
    \/ WireLinkoutput
    \/ (TaskQuiet /\ WifiQuiet /\ tinyusb_init_and_create_usb_netif)
    \/ (BootQuiet /\ WifiQuiet /\ tud_network_init_cb)
    \/ usb_dhcps_start_task
    \/ (BootQuiet /\ TaskQuiet /\ set_usb_ip_from_wifi)

Spec == Init /\ [][Next]_vars


\* The scheduler runs every ready task, vTaskDelay returns and every service call
\* returns: a path that is inside a reconciliation takes its next step.
FairSpec ==
    /\ Spec
    /\ WF_vars(usb_dhcps_start_task)
    /\ WF_vars(TaskQuiet /\ WifiQuiet /\ (BootWait \/ ensure_usb_has_ip))
    /\ WF_vars(BootQuiet /\ TaskQuiet /\ (WifiStop \/ WifiSet \/ WifiFallback \/ WifiStart))

(***************************************************************************)
(* Specifications of the frame relay, one per direction (the directions    *)
(* share no state): the interface is created, the backend attaches, and    *)
(* frames arrive from the host (inbound) or from lwIP (outbound).          *)
(***************************************************************************)
InboundInit == ReconInit /\ RelayInit

InboundNext ==
    \/ BootNewNetif
    \/ BootInstall
    \/ AttachNetif
    \/ WireOutput
    \/ WireLinkoutput
    \/ TudNetworkRecvCb
    \/ NetifInputCb

InboundSpec == InboundInit /\ [][InboundNext]_vars

OutboundNext ==
    \/ BootNewNetif
    \/ BootInstall
    \/ AttachNetif
    \/ WireOutput
    \/ WireLinkoutput
    \/ TudReadyChange
    \/ UsbDriverTransmit
    \/ TudNetworkXmit

OutboundSpec == Init /\ [][OutboundNext]_vars


(***************************************************************************)
(* Properties of the frame relay.                                          *)
(***************************************************************************)
\* C1: every frame buffer tud_network_recv_cb allocated is released by the relay at
\* most once; one that netif->input accepted is never released by the relay; one
\* the relay holds no longer and lwIP did not accept was released exactly once;
\* one still held by the relay is unreleased and waits in the mailbox.
InboundSingleRelease ==
    \A f \in Frames :
        pbufs[f].alloc =>
            /\ pbufs[f].frees <= 1
            /\ pbufs[f].owner \in {"relay", "lwip", "nobody"}
            /\ pbufs[f].owner = "lwip" => pbufs[f].frees = 0
            /\ pbufs[f].owner = "nobody" => pbufs[f].frees = 1
            /\ pbufs[f].owner = "relay" =>
                   /\ pbufs[f].frees = 0
                   /\ \E k \in 1..Len(mbox) : mbox[k].frame = f

\* one frame was accepted by netif->input, one was released after netif->input
\* refused it, and one was released when it could not be posted
InboundSingleReleaseWitness ==
    \E f, g, h \in Frames :
        /\ pbufs[f].owner = "lwip"
        /\ pbufs[g].owner = "nobody" /\ pbufs[g].frees = 1
        /\ \E k \in 1..Len(delivered) : delivered[k] = g
        /\ pbufs[h].owner = "nobody" /\ pbufs[h].frees = 1
        /\ \A k \in 1..Len(delivered) : delivered[k] # h

\* C2: every buffer passed to usb_driver_transmit is released exactly once: at once
\* when the device is not ready, otherwise by tud_network_xmit_cb after the copy;
\* until then TinyUSB holds it unreleased.
OutboundSingleRelease ==
    \A b \in OutIds :
        outbufs[b].buf.alloc =>
            /\ outbufs[b].buf.frees <= 1
            /\ outbufs[b].buf.owner \in {"usb", "nobody"}
            /\ outbufs[b].buf.owner = "usb" => outbufs[b].buf.frees = 0
            /\ outbufs[b].buf.owner = "nobody" => outbufs[b].buf.frees = 1
            /\ (last_xmit.buf = b /\ last_xmit.ret = ESP_FAIL) => outbufs[b].buf.frees = 1
            /\ (last_xmit.buf = b /\ last_xmit.ret = ESP_OK) => outbufs[b].buf.owner = "usb"

\* the first buffer was refused while the device was not ready, the second was
\* handed to TinyUSB and copied out whole by tud_network_xmit_cb
OutboundSingleReleaseWitness ==
    /\ outbufs[1].buf.frees = 1
    /\ outbufs[2].buf.frees = 1
    /\ last_xmit = [buf |-> 2, ret |-> "copied", total |-> 1514]
    /\ tud_ready

\* C8: netif->input receives the frames tud_network_recv_cb accepted in the order
\* the host sent them, none twice and none that was not sent; the frames already
\* given to netif->input followed by those waiting in the mailbox are, in order,
\* the accepted frames (in the direct build also the frames netif->input refused).
InboundOrderPreserved ==
    LET queued == [k \in 1..Len(mbox) |-> mbox[k].frame]
        seen == delivered \o queued
        IsAccepted(f) == \E k \in 1..Len(accepted) : accepted[k] = f
    IN  /\ \A k \in 1..Len(seen) : seen[k] \in 1..(next_frame - 1)
        /\ \A k \in 1..(Len(seen) - 1) : seen[k] < seen[k + 1]
        /\ SelectSeq(seen, IsAccepted) = accepted
        /\ post_mode # "direct" => seen = accepted

\* frames 1 and 3 were accepted and given to netif->input in that order, frame 2
\* was dropped in between
InboundOrderPreservedWitness ==
    /\ accepted = <<1, 3>>
    /\ delivered = <<1, 3>>
    /\ post_mode # "direct"


\* C7 (as stated): a frame that arrives while the backend callbacks are not attached,
\* the lwIP netif absent or present with a NULL output or linkoutput, is rejected:
\* tud_network_recv_cb returns false, allocates no buffer, posts nothing and gives
\* nothing to netif->input.
InboundRejectedUntilAttached ==
    (last_recv.frame # 0 /\ ~last_recv.cb) =>
        /\ ~last_recv.ret
        /\ last_recv.allocs = 0
        /\ ~last_recv.posted
        /\ ~last_recv.input

(***************************************************************************)
(* Properties of the reconciliation paths.                                 *)
(***************************************************************************)
\* the most service calls usb_dhcps_start_task can still make
TaskCallsLeft ==
    CASE task.pc = "wait" -> TaskStopTries + 2 * TaskSetTries + 2 * TaskStartTries
      [] task.pc = "stop" -> (TaskStopTries - task.i) + 2 * TaskSetTries + 2 * TaskStartTries
      [] task.pc = "set" -> 2 * (TaskSetTries - task.j) + 2 * TaskStartTries
      [] task.pc = "set_recover" -> 2 * (TaskSetTries - task.j) - 1 + 2 * TaskStartTries
      [] task.pc = "fallback" -> 2 * TaskStartTries
      [] task.pc = "start" -> 2 * (TaskStartTries - task.a)
      [] task.pc = "start_recover" -> 2 * (TaskStartTries - task.a) - 1
      [] OTHER -> 0

\* the most service calls ensure_usb_has_ip can still make
EnsureCallsLeft ==
    CASE boot.pc = "wait" -> EnsureStopTries + 1
      [] boot.pc = "stop" -> (EnsureStopTries - boot.i) + 1
      [] boot.pc = "set" -> 1
      [] OTHER -> 0

\* the most service calls set_usb_ip_from_wifi can still make
WifiCallsLeft ==
    CASE wifi.pc = "stop" -> 3
      [] wifi.pc = "set" -> 2
      [] wifi.pc \in {"fallback", "start"} -> 1
      [] OTHER -> 0

\* C3: whatever dhcps_stop, set_ip_info and dhcps_start return, every step of a
\* reconciliation path that makes a service call lowers the number of calls the
\* path can still make (at most 40, 7 and 3) and no other step raises it; no loop
\* of usb_dhcps_start_task passes its 8th iteration; and again and again no path
\* is inside a reconciliation: a path that entered one leaves it, which it does
\* only through its end.
ReconciliationTerminates ==
    /\ [][ /\ task'.i < TaskStopTries /\ task'.j < TaskSetTries /\ task'.a < TaskStartTries
           /\ boot'.i < EnsureStopTries
           /\ hist'["task"].sets <= TaskSetTries
           /\ (task' # task /\ task.pc \in {"stop", "set", "set_recover", "start", "start_recover"})
                  => TaskCallsLeft' < TaskCallsLeft
           /\ (task' # task /\ task.pc \in {"wait", "fallback"})
                  => TaskCallsLeft' <= TaskCallsLeft
           /\ (boot' # boot /\ boot.pc \in {"stop", "set"}) => EnsureCallsLeft' < EnsureCallsLeft
           /\ (boot' # boot /\ boot.pc \in {"wait", "fallback"})
                  => EnsureCallsLeft' <= EnsureCallsLeft
           /\ (wifi' # wifi /\ wifi.pc \in {"stop", "set", "start"}) => WifiCallsLeft' < WifiCallsLeft
           /\ (wifi' # wifi /\ wifi.pc = "fallback") => WifiCallsLeft' <= WifiCallsLeft
         ]_vars
    /\ []<>(BootQuiet /\ TaskQuiet /\ WifiQuiet)

\* usb_dhcps_start_task has returned after all 8 passes of its set loop failed and
\* the fallback was applied
ReconciliationTerminatesWitness ==
    /\ hist["task"].phase = "returned"
    /\ hist["task"].sets = TaskSetTries
    /\ hist["task"].confs = TaskSetTries
    /\ hist["task"].fbs = 1
    /\ task.pc = "done"

\* C4 (as stated): for a Station assignment with netmask /24, every assignment
\* set_usb_ip_from_wifi requests has a network address different from the Station's.
SubnetNonOverlap ==
    hist["wifi"].stationMask = Mask24 =>
        \A r \in hist["wifi"].req :
            NetworkOf(r.info) # BitAnd32(hist["wifi"].station, hist["wifi"].stationMask)

\* C4 (as amended): for a Station assignment with netmask /24, every assignment
\* set_usb_ip_from_wifi requests has netmask /24 and the Station's own network
\* address: the Exposed Interface is put into the Station's subnet.
SubnetFollowsStation ==
    hist["wifi"].stationMask = Mask24 =>
        \A r \in hist["wifi"].req :
            /\ r.info.netmask = Mask24
            /\ NetworkOf(r.info) = BitAnd32(hist["wifi"].station, hist["wifi"].stationMask)

\* the Station got 192.168.42.7/24 and 192.168.42.253/24 was applied through the service
SubnetFollowsStationWitness ==
    /\ hist["wifi"].station = IP4_ADDR(192, 168, 42, 7)
    /\ hist["wifi"].stationMask = Mask24
    /\ hist["wifi"].setOk
    /\ usb_ip = IpInfo(IP4_ADDR(192, 168, 42, 253), Mask24, IP4_ADDR(192, 168, 42, 253))

\* C5 (as stated): a reconciliation that found the lwIP netif without its output or
\* linkoutput callback at the end of its readiness check makes no dhcps_stop and no
\* set_ip_info call, and has invoked netif_set_addr exactly once when it returns;
\* in usb_dhcps_start_task as in set_usb_ip_from_wifi.
NotReadySkipsServicePath ==
    \A p \in {"task", "wifi"} :
        (hist[p].phase # "none" /\ hist[p].lwAtCheck /\ ~hist[p].cbAtCheck) =>
            /\ ~hist[p].stopCalled
            /\ hist[p].sets = 0
            /\ hist[p].phase = "returned" => hist[p].fbs = 1

AddressDerivation ==
    LET st == hist["wifi"].station
        want == IP4_ADDR(st[1], st[2], st[3], 253)
    IN  /\ \A r \in hist["wifi"].req : r.info.ip = want /\ r.info.gw = want
        /\ (hist["wifi"].phase = "returned" /\ (hist["wifi"].setOk \/ hist["wifi"].fbs > 0))
               => usb_ip.ip = want

\* the Station got 10.0.5.42/24; 10.0.5.253/24 was requested from the service, which
\* refused, and then set by netif_set_addr
AddressDerivationWitness ==
    LET want == IpInfo(IP4_ADDR(10, 0, 5, 253), Mask24, IP4_ADDR(10, 0, 5, 253))
    IN  /\ hist["wifi"].station = IP4_ADDR(10, 0, 5, 42)
        /\ hist["wifi"].req = {[via |-> "service", info |-> want],
                               [via |-> "fallback", info |-> want]}
        /\ usb_ip = want

\* C10: a call of wait_for_lwip_netif_ready (timeout 2000 or 5000) that finds the
\* netif with output and linkoutput non-NULL at its first poll returns the netif
\* from that poll without sleeping, and no step of the wait changes the interface
\* (handle, backend, address triple, DHCP server).
IdempotentReadinessWait ==
    [][ /\ (task.pc = "wait" /\ task.waited = 0 /\ task' # task
               /\ lwip.attached /\ CallbacksReady) =>
              /\ task'.pc = "stop"
              /\ task'.lw
              /\ hist'["task"].waitRet = "ready"
              /\ ~hist'["task"].slept
        /\ (boot.pc = "wait" /\ boot.waited = 0 /\ boot' # boot
               /\ lwip.attached /\ CallbacksReady) =>
              /\ boot'.pc = "stop"
              /\ hist'["boot"].waitRet = "ready"
              /\ ~hist'["boot"].slept
        /\ ((task.pc = "wait" /\ task' # task) \/ (boot.pc = "wait" /\ boot' # boot))
              => UNCHANGED ifaceVars
      ]_vars

\* usb_dhcps_start_task called the wait on a ready interface and got the netif back
\* at once
IdempotentReadinessWaitWitness ==
    /\ task.pc = "stop"
    /\ task.lw
    /\ hist["task"].readyAtEntry
    /\ hist["task"].waitRet = "ready"
    /\ ~hist["task"].slept

\* the address a path wants on the interface: 192.168.42.1, or a.b.c.253 of the
\* Station address in set_usb_ip_from_wifi
DesiredAddress(p) ==
    IF p = "wifi"
    THEN IP4_ADDR(hist["wifi"].station[1], hist["wifi"].station[2],
                  hist["wifi"].station[3], 253)
    ELSE IP4_ADDR(192, 168, 42, 1)

InputOnlyOnTcpipThread ==
    last_recv.frame # 0 => ~last_recv.input

\* the FreeRTOS task each path executes on: app_main calls
\* tinyusb_init_and_create_usb_netif and then loops over tud_task; xTaskCreate makes
\* the "usb_dhcps" worker; got_ip_handler runs on the default event loop's task
RunsOn == [boot |-> "app_main", task |-> "usb_dhcps", wifi |-> "sys_evt"]

\* path p is inside wait_for_lwip_netif_ready or inside a retry loop that sleeps with
\* vTaskDelay (set_usb_ip_from_wifi has neither)
InWaitOrRetry(p) ==
    CASE p = "boot" -> boot.pc \in {"wait", "stop"}
      [] p = "task" -> task.pc \in {"wait", "stop", "set", "set_recover", "start",
                                    "start_recover"}
      [] OTHER -> FALSE

\* C13 (as stated): the readiness wait and the sleeping retry loops execute only on
\* the dedicated worker task, never on app_main's task, which drives TinyUSB, and
\* never on another context.
BlockingOnWorkerOnly ==
    \A p \in Paths : InWaitOrRetry(p) => RunsOn[p] = "usb_dhcps"

\* C14: no step of a dhcps_start loop, the recovery dhcps_stop included, changes the
\* address triple, whatever dhcps_start returns; the step stays in the loop or ends
\* the reconciliation normally, and usb_dhcps_start_task ends with the address it
\* applied still on the interface.
StartFailureKeepsAddress ==
    [][ /\ (task.pc \in {"start", "start_recover"} /\ task' # task) =>
              /\ usb_ip' = usb_ip
              /\ task'.pc \in {"start", "start_recover", "done"}
              /\ (task'.pc = "done" /\ (hist["task"].setOk \/ hist["task"].fbs >= 1))
                     => usb_ip'.ip = IP4_ADDR(192, 168, 42, 1)
        /\ (wifi.pc = "start" /\ wifi' # wifi) =>
              /\ usb_ip' = usb_ip
              /\ wifi'.pc = "idle"
      ]_vars

\* dhcps_start has failed eight times in usb_dhcps_start_task, the last time with
\* the conflict error, and the address set through the service is still in place
StartFailureKeepsAddressWitness ==
    /\ task.pc = "start_recover"
    /\ task.a = TaskStartTries - 1
    /\ hist["task"].setOk
    /\ ~dhcps_running
    /\ usb_ip = DefaultIpInfo

\* C15 (as stated): every assignment set_usb_ip_from_wifi requests, from the service
\* or by netif_set_addr, and the one on the interface when it returns after applying
\* one, has the Station's netmask when that is non-zero and 255.255.255.0 otherwise.
NetmaskCopiedOnEveryPath ==
    LET want == IF hist["wifi"].stationMask # Zero32 THEN hist["wifi"].stationMask
                ELSE Mask24
    IN  /\ \A r \in hist["wifi"].req : r.info.netmask = want
        /\ (hist["wifi"].phase = "returned" /\ (hist["wifi"].setOk \/ hist["wifi"].fbs > 0))
               => usb_ip.netmask = want

\* C16: while usb_netif is NULL a call of set_usb_ip_from_wifi returns at once: it
\* derives nothing, calls no service function and no netif_set_addr, and leaves the
\* handle, the backend, the address triple, the DHCP server and every path as they
\* were.
MissingInterfaceIsNoOp ==
    [][ (~usb_netif /\ hist' # hist) =>
            /\ UNCHANGED <<usb_netif, tusb_installed, lwip, usb_ip, dhcps_running, set_script,
                           boot, task, wifi>>
            /\ hist'["wifi"] = [NoHist EXCEPT !.phase = "returned"]
      ]_vars

\* esp_netif_new failed, the Station then got an address, and set_usb_ip_from_wifi
\* returned without doing anything
MissingInterfaceIsNoOpWitness ==
    /\ ~usb_netif
    /\ boot.pc = "main_loop"
    /\ hist["wifi"] = [NoHist EXCEPT !.phase = "returned"]
    /\ wifi.pc = "idle"
    /\ usb_ip = Unset
    /\ ~dhcps_running

\* C17: a call of usb_driver_transmit made while tud_ready() is false returns
\* ESP_FAIL in that one step, with the buffer released once and never handed to
\* tud_network_xmit; while tud_ready() is true the buffer is handed over and the call
\* returns ESP_OK.
UnreadyTransportDrops ==
    [][ (next_out' = next_out + 1) =>
            IF ~tud_ready
            THEN /\ last_xmit' = [buf |-> next_out, ret |-> ESP_FAIL, total |-> 0]
                 /\ outbufs'[next_out].buf = [alloc |-> TRUE, frees |-> 1, owner |-> "nobody"]
            ELSE /\ last_xmit'.ret = ESP_OK
                 /\ outbufs'[next_out].buf = [alloc |-> TRUE, frees |-> 0, owner |-> "usb"]
      ]_vars

\* both buffers were passed while the device was not ready and both were dropped
UnreadyTransportDropsWitness ==
    /\ ~tud_ready
    /\ next_out = MaxOut + 1
    /\ last_xmit.ret = ESP_FAIL
    /\ \A b \in OutIds : outbufs[b].buf = [alloc |-> TRUE, frees |-> 1, owner |-> "nobody"]
    /\ outbufs[1].segs = <<1000, 514>>

\* C18: a pass of the initial dhcps_stop loop that gets ESP_OK or already-stopped
\* goes on to the set-address step; a pass that gets another error stays in the
\* loop for the next attempt while fewer than 8 (usb_dhcps_start_task) or 6
\* (ensure_usb_has_ip) attempts were made, and after the last attempt goes on to
\* the set-address step as well.
StopLoopStep ==
    [][ /\ (task.pc = "stop" /\ task' # task) =>
              /\ task.i < 8
              /\ IF task'.rc \in {ESP_OK, ALREADY_STOPPED} \/ task.i = 7
                 THEN task'.pc = "set" /\ task'.j = 0
                 ELSE task'.pc = "stop" /\ task'.i = task.i + 1
        /\ (boot.pc = "stop" /\ boot' # boot) =>
              /\ boot.i < 6
              /\ IF boot'.rc \in {ESP_OK, ALREADY_STOPPED} \/ boot.i = 5
                 THEN boot'.pc = "set"
                 ELSE boot'.pc = "stop" /\ boot'.i = boot.i + 1
      ]_vars

\* usb_dhcps_start_task left its stop loop after the 8th attempt failed like the
\* others (its result is still in rc) and stands before its first set_ip_info call
StopLoopStepWitness ==
    /\ task.pc = "set"
    /\ task.j = 0
    /\ task.rc = NOT_STOPPED
    /\ hist["task"].stopCalled
    /\ hist["task"].sets = 0

\* C19: in a reconciliation that found the backend ready, netif_set_addr is invoked
\* at most once, only after a set_ip_info call and only if none returned ESP_OK; in
\* usb_dhcps_start_task (ready or not) only after 8 set_ip_info calls.
FallbackOnlyAfterServiceFailed ==
    /\ \A p \in Paths :
           hist[p].cbAtCheck =>
               /\ hist[p].fbs <= 1
               /\ hist[p].fbs = 1 => (~hist[p].setOk /\ hist[p].sets >= 1)
    /\ hist["task"].fbs <= 1
    /\ hist["task"].fbs = 1 => (~hist["task"].setOk /\ hist["task"].sets = TaskSetTries)

\* ensure_usb_has_ip found the backend ready, its one set_ip_info call returned an
\* error other than the conflict, and it set 192.168.42.1 by netif_set_addr
FallbackOnlyAfterServiceFailedWitness ==
    /\ hist["boot"].phase = "returned"
    /\ hist["boot"].cbAtCheck
    /\ hist["boot"].sets = 1
    /\ hist["boot"].confs = 0
    /\ hist["boot"].fbs = 1
    /\ usb_ip = FallbackDefault

\* C20: a frame is accepted only if its pbuf and its recv_arg_t were allocated and
\* it was posted; for a frame tud_network_recv_cb returned false for, the pbuf and
\* the recv_arg_t are each unallocated or freed exactly once, nothing of it waits in
\* the mailbox, and netif->input saw it only in the direct build, where input itself
\* refused it.  The last call's return value says whether its frame was accepted.
ExhaustionDropsCleanly ==
    LET IsAccepted(f) == \E k \in 1..Len(accepted) : accepted[k] = f
        IsDelivered(f) == \E k \in 1..Len(delivered) : delivered[k] = f
        IsQueued(f) == \E k \in 1..Len(mbox) : mbox[k].frame = f
        Clean(b) == b = NoBuf \/ b = [alloc |-> TRUE, frees |-> 1, owner |-> "nobody"]
    IN  /\ \A f \in 1..(next_frame - 1) :
               IF IsAccepted(f)
               THEN /\ pbufs[f].alloc /\ recv_args[f].alloc
                    /\ IsQueued(f) \/ IsDelivered(f)
               ELSE /\ Clean(pbufs[f]) /\ Clean(recv_args[f])
                    /\ ~IsQueued(f)
                    /\ IsDelivered(f) => post_mode = "direct"
        /\ last_recv.frame # 0 => (last_recv.ret <=> IsAccepted(last_recv.frame))
        /\ (last_recv.frame # 0 /\ ~last_recv.ret /\ post_mode # "direct")
               => (~last_recv.posted /\ ~last_recv.input)

\* frame 1 was dropped because malloc failed (pbuf freed, no recv_arg_t), frame 2
\* because the post failed (both freed), and frame 3 was then accepted and given to
\* netif->input
ExhaustionDropsCleanlyWitness ==
    /\ post_mode = "tcpip_callback_with_block"
    /\ pbufs[1] = [alloc |-> TRUE, frees |-> 1, owner |-> "nobody"]
    /\ recv_args[1] = NoBuf
    /\ pbufs[2] = [alloc |-> TRUE, frees |-> 1, owner |-> "nobody"]
    /\ recv_args[2] = [alloc |-> TRUE, frees |-> 1, owner |-> "nobody"]
    /\ accepted = <<3>>
    /\ delivered = <<3>>
    /\ pbufs[3].owner = "lwip"

(***************************************************************************)
(* C21.  The readiness wait is bounded and returns the best-known handle.  *)
(***************************************************************************)
\* the most polls a call with this timeout makes: ceil(timeout_ms / step_ms)
MaxPolls(timeout_ms) == (timeout_ms + step_ms - 1) \div step_ms

\* one step of a readiness wait whose locals are f before it and g after it (g.pc
\* tells whether it returned), with timeout timeout_ms and observations h after it
WaitStepBounded(f, g, h, timeout_ms) ==
    /\ f.waited % step_ms = 0
    /\ f.waited \div step_ms <= MaxPolls(timeout_ms)
    /\ IF f.waited < timeout_ms
       THEN IF lwip.attached /\ CallbacksReady
            THEN g.pc = "stop" /\ h.waitRet = "ready" /\ h.lwAtCheck /\ h.cbAtCheck
            ELSE g.pc = "wait" /\ g.waited = f.waited + step_ms /\ g.lw = lwip.attached
       ELSE /\ g.pc = "stop"
            /\ h.lwAtCheck = f.lw
            /\ h.waitRet = (IF f.lw THEN "timeout_lw" ELSE "null")

\* C21: wait_for_lwip_netif_ready (timeout 5000 in usb_dhcps_start_task, 2000 in
\* tinyusb_init_and_create_usb_netif) polls at most ceil(timeout/100) times: the
\* number of polls made is waited/100, each unready poll adds 100, and the step at
\* waited >= timeout returns.  A poll that sees output and linkoutput non-NULL
\* returns the ready netif at once; the return after the loop gives the netif as
\* the last poll observed it, and NULL only if that poll saw none attached.
BoundedReadinessWait ==
    [][ /\ (task.pc = "wait" /\ task' # task) =>
              /\ WaitStepBounded(task, task', hist'["task"], TaskTimeoutMs)
              /\ task'.pc = "stop" => (task'.lw <=> hist'["task"].waitRet # "null")
        /\ (boot.pc = "wait" /\ boot' # boot) =>
              WaitStepBounded(boot, boot', hist'["boot"], InitTimeoutMs)
      ]_vars

\* usb_dhcps_start_task's wait ran out with the netif attached and a callback still
\* NULL, and returned that netif
BoundedReadinessWaitWitness ==
    /\ task.pc = "stop"
    /\ task.i = 0
    /\ task.lw
    /\ hist["task"].waitRet = "timeout_lw"
    /\ hist["task"].lwAtCheck
    /\ ~hist["task"].cbAtCheck

(***************************************************************************)
(* C22.  Re-addressing against a racing bring-up.                          *)
(***************************************************************************)
\* the interface carries a.b.c.253 of some Station address
AppliedByWifi ==
    \E addr \in StationAddrs :
        LET d == DeriveBytes(addr) IN usb_ip.ip = IP4_ADDR(d.a, d.b, d.c, HostSuffix)

\* app_main, the usb_dhcps task and the event task run concurrently: their steps
\* interleave freely
\* the usb_dhcps task and the event task run concurrently: their steps interleave.
\* got_ip_handler for one Station assignment, 10.0.5.42/24
RaceGotIp ==
    /\ wifi.pc = "idle"
    /\ set_usb_ip_from_wifi_entry(IP4_ADDR(10, 0, 5, 42), Mask24, <<>>)
    /\ UNCHANGED <<usb_netif, tusb_installed, lwip, dhcps_running, boot, task, relayVars>>

RaceNext ==
    \/ tud_network_init_cb
    \/ usb_dhcps_start_task
    \/ RaceGotIp
    \/ WifiStop
    \/ WifiSet
    \/ WifiFallback
    \/ WifiStart

\* bring-up in app_main has ended with 192.168.42.1 set through the service, the
\* backend is attached and wired, and tud_network_init_cb has just spawned the
\* usb_dhcps task (a state Spec reaches)
RaceInit ==
    /\ usb_netif = TRUE
    /\ tusb_installed = TRUE
    /\ lwip = [attached |-> TRUE, output |-> TRUE, linkoutput |-> TRUE]
    /\ usb_ip = DefaultIpInfo
    /\ dhcps_running = FALSE
    /\ set_script = <<>>
    /\ boot = [BootInit EXCEPT !.pc = "main_loop"]
    /\ task = [TaskInit EXCEPT !.pc = "wait"]
    /\ wifi = WifiInit
    /\ hist = [p \in Paths |-> IF p = "task" THEN FreshHist ELSE NoHist]
    /\ RelayInit
    /\ post_mode = "tcpip_callback_with_block"

RaceSpec == RaceInit /\ [][RaceNext]_vars

\* C22: once the interface carries the Station-derived address a.b.c.253, no step
\* of any path puts 192.168.42.1 back on it.
ReaddressingNotUndone ==
    [][AppliedByWifi => usb_ip'.ip # IP4_ADDR(192, 168, 42, 1)]_vars

(***************************************************************************)
(* C23.  A path that stops the DHCP server asks it to start again.         *)
(***************************************************************************)
\* C23: every reconciliation path (usb_dhcps_start_task, ensure_usb_has_ip,
\* set_usb_ip_from_wifi) that has called esp_netif_dhcps_stop has called
\* esp_netif_dhcps_start at least once by the time it returns.
StoppedServiceIsRestarted ==
    \A p \in Paths :
        (hist[p].phase = "returned" /\ hist[p].stopCalled) => hist[p].startCalled

====
